---- MODULE Spec2Model ----
(***************************************************************************)
(* Model of the order construction and signing code of roushou/diced:      *)
(*   packages/order-book/src/requests/order.ts  (OrderRequests)            *)
(*   apps/server/src/middleware/auth.ts         (requireAuth, withAuth)    *)
(*                                                                         *)
(* Strings are sequences of one-character strings, so that split, toString *)
(* and BigInt are computed character by character.  Decimal numbers are    *)
(* records [n, s] standing for n / 10^s, computed exactly.                 *)
(***************************************************************************)
EXTENDS Integers, Sequences, FiniteSets

VARIABLES
    op,          \* which operation is in progress: "idle", "calc", "conv", "auth", "order", "list"
    cArgs,       \* arguments of the calculateOrderAmounts call in progress
    cRet,        \* its return value
    mArgs,       \* arguments of signatureTypeToNumber / orderSideToNumber
    mRet,        \* their return values
    aHeader,     \* value of req.headers.get("Authorization") of the request
    aCalls,      \* tokens the wrapped handler was invoked with, in order
    aResp,       \* response of the wrapped route
    wallet,      \* this.client.wallet: chain id, account address, whether account.getNonce exists
    entry,       \* the method the caller invoked: "createOrder" or "createAndPostOrder"
    params,      \* its CreateOrderParams
    pc,          \* where the call stands: "none", "lookups", "signing", "posting", "done"
    lookups,     \* getTickSize, getFeeRateBps, getNonce: pending, ok (with a value) or failed
    all,         \* the promise of Promise.all over the three lookups
    amounts,     \* result of calculateOrderAmounts, once computed
    order,       \* the unsigned Order, once built
    signature,   \* the promise of wallet.signTypedData
    signerCalls, \* typed data handed to wallet.signTypedData, in order
    posts,       \* requests dispatched by postOrder, in order
    outcome,     \* what the caller's promise settled with
    prev,        \* how the caller's previous createAndPostOrder call failed, if it did
    lpc,         \* where the listAll call stands: "none", "fetching", "done"
    lRequests,   \* the nextCursor argument of every list call made, in order
    lResponses,  \* the responses received, in order
    lMarkets,    \* the local array markets
    lOutcome     \* what the promise of listAll settled with

calcVars == <<cArgs, cRet>>
convVars == <<mArgs, mRet>>
authVars == <<aHeader, aCalls, aResp>>
callVars == <<entry, params, pc, lookups, all, amounts, order, signature,
              signerCalls, posts, outcome>>
orderVars == <<callVars, prev>>

listVars == <<lpc, lRequests, lResponses, lMarkets, lOutcome>>

vars == <<op, calcVars, convVars, authVars, wallet, orderVars, listVars>>

None == [none |-> TRUE]

----------------------------------------------------------------------------
(* Bounds of the model *)

MaxPriceMilli == 12
MaxSizeMilli == 12
MaxHeaderLen == 4
MaxConvCalls == 2
MaxSalt == 1
MaxPages == 3

----------------------------------------------------------------------------
(* Strings *)

Digits == <<"0", "1", "2", "3", "4", "5", "6", "7", "8", "9">>

RECURSIVE NatToString(_)
NatToString(k) ==
    IF k < 10 THEN <<Digits[k + 1]>>
    ELSE NatToString(k \div 10) \o <<Digits[(k % 10) + 1]>>

\* Number.prototype.toString / BigInt.prototype.toString on an integer
ToString(k) == IF k < 0 THEN <<"-">> \o NatToString(-k) ELSE NatToString(k)

DigitValue(c) == CHOOSE d \in 0..9 : Digits[d + 1] = c

IsDigit(c) == \E d \in 0..9 : Digits[d + 1] = c

RECURSIVE DigitsToNat(_)
DigitsToNat(s) ==
    IF s = <<>> THEN 0
    ELSE 10 * DigitsToNat(SubSeq(s, 1, Len(s) - 1)) + DigitValue(s[Len(s)])

AllDigits(s) == \A i \in 1..Len(s) : IsDigit(s[i])

\* BigInt(string): the integer a decimal string denotes; ok is FALSE where
\* BigInt throws a SyntaxError
BigInt(s) ==
    IF s = <<>> THEN [ok |-> TRUE, value |-> 0]
    ELSE IF s[1] = "-" /\ Len(s) > 1 /\ AllDigits(Tail(s))
         THEN [ok |-> TRUE, value |-> -DigitsToNat(Tail(s))]
    ELSE IF AllDigits(s) THEN [ok |-> TRUE, value |-> DigitsToNat(s)]
    ELSE [ok |-> FALSE, value |-> 0]

\* index of the first occurrence of sep in s, 0 when there is none
RECURSIVE IndexOf(_, _, _)
IndexOf(s, sep, i) ==
    IF i > Len(s) THEN 0
    ELSE IF s[i] = sep THEN i
    ELSE IndexOf(s, sep, i + 1)

\* String.prototype.split(sep) for a one-character separator
RECURSIVE Split(_, _)
Split(s, sep) ==
    LET i == IndexOf(s, sep, 1) IN
    IF i = 0 THEN <<s>>
    ELSE <<SubSeq(s, 1, i - 1)>> \o Split(SubSeq(s, i + 1, Len(s)), sep)

----------------------------------------------------------------------------
(* Decimal numbers *)

RECURSIVE Pow10(_)
Pow10(k) == IF k = 0 THEN 1 ELSE 10 * Pow10(k - 1)

Dec(n, s) == [n |-> n, s |-> s]

\* floor(a / b) for b > 0
FloorDiv(a, b) == IF a >= 0 THEN a \div b ELSE -((-a + b - 1) \div b)

\* a / b rounded to the nearest integer, halves away from zero, for b > 0
RoundDiv(a, b) ==
    IF a >= 0 THEN (2 * a + b) \div (2 * b) ELSE -((2 * (-a) + b) \div (2 * b))

\* roundTo(value, decimals) of ../utils.ts: value rounded to `decimals` places
roundTo(x, d) ==
    IF x.s <= d THEN Dec(x.n * Pow10(d - x.s), d)
    ELSE Dec(RoundDiv(x.n, Pow10(x.s - d)), d)

Mul(x, y) == Dec(x.n * y.n, x.s + y.s)

\* Math.floor(x * 10 ** d)
FloorScaled(x, d) ==
    IF x.s <= d THEN x.n * Pow10(d - x.s) ELSE FloorDiv(x.n, Pow10(x.s - d))

----------------------------------------------------------------------------
(* OrderRequests.calculateOrderAmounts *)

sizeDecimals == 2

tickDecimalsOf(tickSize) ==
    LET parts == Split(tickSize, ".") IN
    IF Len(parts) >= 2 THEN Len(parts[2]) ELSE 0

sharesRawOf(size) == FloorScaled(roundTo(size, sizeDecimals), sizeDecimals)

\* a slip in the exponent: one decimal too many in the raw cost
costRawOfWrongScale(size, price, tickSize) ==
    LET tickDecimals == tickDecimalsOf(tickSize)
        amountDecimals == tickDecimals + sizeDecimals
        roundedPrice == roundTo(price, tickDecimals)
        shares == roundTo(size, sizeDecimals)
        cost == roundTo(Mul(shares, roundedPrice), amountDecimals)
    IN  FloorScaled(cost, amountDecimals + 1)

costRawOf(size, price, tickSize) ==
    LET tickDecimals == tickDecimalsOf(tickSize)
        amountDecimals == tickDecimals + sizeDecimals
        roundedPrice == roundTo(price, tickDecimals)
        shares == roundTo(size, sizeDecimals)
        cost == roundTo(Mul(shares, roundedPrice), amountDecimals)
    IN  FloorScaled(cost, amountDecimals)

\* the two branches exchanged
calculateOrderAmountsSwapped(side, size, price, tickSize) ==
    LET sharesRaw == ToString(sharesRawOf(size))
        costRaw == ToString(costRawOf(size, price, tickSize))
    IN  IF side = "BUY"
        THEN [maker |-> sharesRaw, taker |-> costRaw]
        ELSE [maker |-> costRaw, taker |-> sharesRaw]

calculateOrderAmounts(side, size, price, tickSize) ==
    LET sharesRaw == ToString(sharesRawOf(size))
        costRaw == ToString(costRawOf(size, price, tickSize))
    IN  IF side = "BUY"
        THEN [maker |-> costRaw, taker |-> sharesRaw]
        ELSE [maker |-> sharesRaw, taker |-> costRaw]

----------------------------------------------------------------------------
(* Inputs *)

Sides == {"BUY", "SELL"}

\* prices and sizes in thousandths, non-positive ones included, and the
\* values 0.45 and 100 of the documented example
Prices == {Dec(k, 3) : k \in -2..MaxPriceMilli} \cup {Dec(45, 2)}
Sizes == {Dec(k, 3) : k \in -2..MaxSizeMilli} \cup {Dec(100, 0)}

TickSizes == {<<"1">>, <<"0", ".", "1">>, <<"0", ".", "0", "1">>,
              <<"0", ".", "0", "0", "1">>, <<"x">>}

----------------------------------------------------------------------------
(* signatureTypeToNumber, orderSideToNumber, getContractForChain *)

SignatureTypes == {"eoa", "poly-proxy", "poly-gnosis-safe"}

\* every type mapped to 0
signatureTypeToNumberConst(signatureType) == 0

signatureTypeToNumber(signatureType) ==
    CASE signatureType = "eoa" -> 0
      [] signatureType = "poly-proxy" -> 1
      [] signatureType = "poly-gnosis-safe" -> 2

orderSideToNumber(side) == IF side = "BUY" THEN 0 ELSE 1

----------------------------------------------------------------------------
(* The wallet, the contract registry and the typed data of an order *)

ChainIds == {137, 80002, 1}

\* this.client.wallet; account.getNonce is optional
Wallets == {[chainId |-> c, address |-> "0xA", hasGetNonce |-> g] :
               c \in ChainIds, g \in BOOLEAN}

\* the two entries of the contract registry; the addresses are opaque
POLYGON_CONTRACTS == [negRiskExchange |-> "polygon.negRiskExchange"]
POLYGON_AMOY_CONTRACTS == [negRiskExchange |-> "polygonAmoy.negRiskExchange"]

\* the test for the other chain
getContractForChainAmoyTest(chainId) ==
    IF chainId = 80002 THEN POLYGON_AMOY_CONTRACTS ELSE POLYGON_CONTRACTS

getContractForChain(chainId) ==
    IF chainId = 137 THEN POLYGON_CONTRACTS ELSE POLYGON_AMOY_CONTRACTS

zeroAddress == "0x0"

\* the Order built by createOrder from the parameters and the three lookups
buildOrder(p, address, tickSize, feeRateBps, nonce, salt) ==
    LET amts == calculateOrderAmounts(p.side, p.size, p.price, tickSize) IN
    [signer |-> address,
     maker |-> address,
     taker |-> IF p.taker = "public" THEN zeroAddress ELSE p.taker,
     tokenId |-> p.tokenId,
     nonce |-> ToString(nonce),
     salt |-> ToString(salt),
     feeRateBps |-> ToString(feeRateBps),
     expiration |-> ToString(p.expiration),
     side |-> p.side,
     signatureType |-> "eoa",
     makerAmount |-> amts.maker,
     takerAmount |-> amts.taker]

\* the fields of the Order type declared uint256
UintFields == {"salt", "tokenId", "makerAmount", "takerAmount", "expiration",
               "nonce", "feeRateBps"}

\* no BigInt(...) of the message throws
messageConverts(o) == \A f \in UintFields : BigInt(o[f]).ok

\* maker and taker amounts exchanged
orderMessageSwapped(o) ==
    [salt |-> BigInt(o.salt).value,
     signer |-> o.signer,
     maker |-> o.maker,
     taker |-> o.taker,
     tokenId |-> BigInt(o.tokenId).value,
     nonce |-> BigInt(o.nonce).value,
     feeRateBps |-> BigInt(o.feeRateBps).value,
     expiration |-> BigInt(o.expiration).value,
     side |-> orderSideToNumber(o.side),
     signatureType |-> signatureTypeToNumber(o.signatureType),
     makerAmount |-> BigInt(o.takerAmount).value,
     takerAmount |-> BigInt(o.makerAmount).value]

\* the message signOrder hands to wallet.signTypedData
orderMessage(o) ==
    [salt |-> BigInt(o.salt).value,
     signer |-> o.signer,
     maker |-> o.maker,
     taker |-> o.taker,
     tokenId |-> BigInt(o.tokenId).value,
     nonce |-> BigInt(o.nonce).value,
     feeRateBps |-> BigInt(o.feeRateBps).value,
     expiration |-> BigInt(o.expiration).value,
     side |-> orderSideToNumber(o.side),
     signatureType |-> signatureTypeToNumber(o.signatureType),
     makerAmount |-> BigInt(o.makerAmount).value,
     takerAmount |-> BigInt(o.takerAmount).value]

\* the domain signOrder hands to wallet.signTypedData
orderDomain(w) ==
    [name |-> "Polymarket CTF Exchange",
     version |-> "1",
     chainId |-> w.chainId,
     verifyingContract |-> getContractForChain(w.chainId).negRiskExchange]

\* { ...order, signature }
signedOrder(o, sig) ==
    [signer |-> o.signer, maker |-> o.maker, taker |-> o.taker, tokenId |-> o.tokenId,
     nonce |-> o.nonce, salt |-> o.salt, feeRateBps |-> o.feeRateBps,
     expiration |-> o.expiration, side |-> o.side, signatureType |-> o.signatureType,
     makerAmount |-> o.makerAmount, takerAmount |-> o.takerAmount, signature |-> sig]

\* the order sent without its signature
postRequestUnsigned(signed) ==
    [method |-> "POST", path |-> "/order",
     auth |-> [kind |-> "l2",
               headerArgs |-> [deferExec |-> FALSE, order |-> signedOrder(signed, "")]],
     body |-> signedOrder(signed, "")]

\* the request postOrder hands to client.request
postRequest(signed) ==
    [method |-> "POST", path |-> "/order",
     auth |-> [kind |-> "l2", headerArgs |-> [deferExec |-> FALSE, order |-> signed]],
     body |-> signed]

\* fulfilled once all three lookups have settled, whatever their results
promiseAllSettled(cur, lk, error) ==
    IF cur.st # "pending" THEN cur
    ELSE IF \A k \in DOMAIN lk : lk[k].st # "pending" THEN [st |-> "fulfilled", error |-> ""]
    ELSE cur

\* Promise.all after one more lookup has settled (error is "" when it succeeded):
\* rejected by the first lookup that fails, fulfilled when all three are ok
promiseAll(cur, lk, error) ==
    IF cur.st # "pending" THEN cur
    ELSE IF error # "" THEN [st |-> "rejected", error |-> error]
    ELSE IF \A k \in DOMAIN lk : lk[k].st = "ok" THEN [st |-> "fulfilled", error |-> ""]
    ELSE cur

----------------------------------------------------------------------------
(* Inputs and results of the collaborators *)

TokenIds == {<<"1", "2">>, <<"x">>}
OrderPrices == {Dec(0, 0), Dec(45, 2)}
OrderSizes == {Dec(-1, 0), Dec(100, 0)}
Expirations == {0, 1700}
Takers == {"public", "0xB"}

CreateOrderParams ==
    [tokenId : TokenIds, price : OrderPrices, side : Sides, size : OrderSizes,
     expiration : Expirations, taker : Takers]

TickSizeResults == {<<"0", ".", "0", "1">>, <<"x">>}
FeeRateResults == {0, 30}
NonceResults == {0, 7}
Signatures == {"0xSIG"}
OrderResponses == {[success |-> TRUE, errorMsg |-> "", orderID |-> "id1"],
                   [success |-> FALSE, errorMsg |-> "rejected", orderID |-> ""]}

NoLookups ==
    [tickSize |-> [st |-> "none", val |-> <<>>],
     feeRateBps |-> [st |-> "none", val |-> 0],
     nonce |-> [st |-> "none", val |-> 0]]

PendingLookups ==
    [tickSize |-> [st |-> "pending", val |-> <<>>],
     feeRateBps |-> [st |-> "pending", val |-> 0],
     nonce |-> [st |-> "pending", val |-> 0]]

NoPromise == [st |-> "none", error |-> ""]
PendingPromise == [st |-> "pending", error |-> ""]
NoSignature == [st |-> "none", val |-> ""]
NoAmounts == [computed |-> FALSE, maker |-> <<>>, taker |-> <<>>]
NoOutcome == [kind |-> "pending", error |-> "", value |-> None]
NoPrev == [kind |-> "none", error |-> "", signed |-> FALSE]

Rejected(error) == [kind |-> "rejected", error |-> error, value |-> None]
Resolved(value) == [kind |-> "resolved", error |-> "", value |-> value]

----------------------------------------------------------------------------
(* MarketRequests.list and MarketRequests.listAll *)

\* a cursor: undefined (absent), or a string, "" included
NoCursor == [present |-> FALSE, value |-> ""]
Cursors == {NoCursor} \cup {[present |-> TRUE, value |-> v] : v \in {"", "a", "b"}}

\* the data of a page
PageData == {<<>>, <<"m1">>, <<"m2", "m1">>}

\* ListMarketsResponse, as far as listAll reads it
ListMarketsResponses == [data : PageData, next_cursor : Cursors]

\* an empty string taken for a cursor
truthyDefined(cursor) == cursor.present

\* the loop test while (nextCursor): undefined and "" end the loop
truthy(cursor) == cursor.present /\ cursor.value # ""

----------------------------------------------------------------------------
(* requireAuth, withAuth and the /api/sign route *)

\* A header value is a sequence of pieces: " " is one space, every other piece
\* is a run of characters without a space ("t" is the single character t).
HeaderPieces == {"Bearer", "bearer", "t", " "}

RECURSIVE SeqsUpTo(_, _)
SeqsUpTo(S, k) ==
    IF k = 0 THEN {<<>>}
    ELSE LET shorter == SeqsUpTo(S, k - 1) IN
         shorter \cup {Append(s, x) : s \in {q \in shorter : Len(q) = k - 1}, x \in S}

\* what req.headers.get("Authorization") can return: null or a string
NullHeader == [present |-> FALSE, value |-> <<>>]
HeaderValues ==
    {NullHeader} \cup {[present |-> TRUE, value |-> s] : s \in SeqsUpTo(HeaderPieces, MaxHeaderLen)}

Unauthorized == [kind |-> "response", status |-> 401, body |-> "unauthorized"]

\* the token check left out
requireAuthNoTokenCheck(authorization) ==
    IF ~authorization.present \/ authorization.value = <<>> THEN Unauthorized
    ELSE LET parts == Split(authorization.value, " ") IN
         IF Len(parts) # 2 \/ parts[1] # <<"Bearer">> THEN Unauthorized
         ELSE [kind |-> "token", token |-> parts[2]]

requireAuth(authorization) ==
    IF ~authorization.present \/ authorization.value = <<>> THEN Unauthorized
    ELSE LET parts == Split(authorization.value, " ") IN
         IF Len(parts) # 2 \/ parts[1] # <<"Bearer">> THEN Unauthorized
         ELSE LET token == parts[2] IN
              IF token = <<>> THEN Unauthorized
              ELSE [kind |-> "token", token |-> token]

\* the handler of the /api/sign route
signHandler(token) ==
    [kind |-> "response", status |-> 200, body |-> [message |-> "ok", token |-> token]]

----------------------------------------------------------------------------
Init ==
    /\ op = "idle"
    /\ cArgs = None
    /\ cRet = None
    /\ mArgs = <<>>
    /\ mRet = <<>>
    /\ aHeader = NullHeader
    /\ aCalls = <<>>
    /\ aResp = None
    /\ wallet \in Wallets
    /\ entry = "none"
    /\ params = None
    /\ pc = "none"
    /\ lookups = NoLookups
    /\ all = NoPromise
    /\ amounts = NoAmounts
    /\ order = None
    /\ signature = NoSignature
    /\ signerCalls = <<>>
    /\ posts = <<>>
    /\ outcome = NoOutcome
    /\ prev = NoPrev
    /\ lpc = "none"
    /\ lRequests = <<>>
    /\ lResponses = <<>>
    /\ lMarkets = <<>>
    /\ lOutcome = NoOutcome

CalcCall ==
    /\ op = "idle"
    /\ \E side \in Sides, size \in Sizes, price \in Prices, tickSize \in TickSizes :
          /\ cArgs' = [side |-> side, size |-> size, price |-> price, tickSize |-> tickSize]
          /\ cRet' = calculateOrderAmounts(side, size, price, tickSize)
    /\ op' = "calc"
    /\ UNCHANGED <<convVars, authVars, listVars, wallet, orderVars>>

\* signatureTypeToNumber and orderSideToNumber applied to one more input; the
\* calls made so far are kept, oldest first
ConvCall ==
    /\ op \in {"idle", "conv"}
    /\ Len(mArgs) < MaxConvCalls
    /\ \E signatureType \in SignatureTypes, side \in Sides :
          /\ mArgs' = Append(mArgs, [signatureType |-> signatureType, side |-> side])
          /\ mRet' = Append(mRet, [signatureType |-> signatureTypeToNumber(signatureType),
                                   side |-> orderSideToNumber(side)])
    /\ op' = "conv"
    /\ UNCHANGED <<calcVars, authVars, listVars, wallet, orderVars>>

\* one request to the route wrapped by withAuth
AuthRequest ==
    /\ op = "idle"
    /\ \E authorization \in HeaderValues :
          LET authResult == requireAuth(authorization) IN
          /\ aHeader' = authorization
          /\ IF authResult.kind = "response"
             THEN /\ aResp' = authResult
                  /\ UNCHANGED aCalls
             ELSE /\ aCalls' = Append(aCalls, authResult.token)
                  /\ aResp' = signHandler(authResult.token)
    /\ op' = "auth"
    /\ UNCHANGED <<calcVars, convVars, listVars, wallet, orderVars>>

\* createOrder or createAndPostOrder is called: the three lookups are started
StartCall(e) ==
    /\ \E p \in CreateOrderParams : params' = p
    /\ entry' = e
    /\ op' = "order"
    /\ pc' = "lookups"
    /\ lookups' = PendingLookups
    /\ all' = PendingPromise
    /\ UNCHANGED <<calcVars, convVars, authVars, listVars, wallet, amounts, order, signature,
                   signerCalls, posts, outcome, prev>>

CreateOrder ==
    /\ op = "idle"
    /\ StartCall("createOrder")

CreateAndPostOrder ==
    /\ op = "idle"
    /\ StartCall("createAndPostOrder")

\* one lookup settles, and Promise.all with it
SettleLookup(k, st, val, error) ==
    /\ lookups[k].st = "pending"
    /\ lookups' = [lookups EXCEPT ![k] = [st |-> st, val |-> val]]
    /\ all' = promiseAll(all, lookups', error)
    /\ UNCHANGED <<op, calcVars, convVars, authVars, listVars, wallet, entry, params, pc, amounts,
                   order, signature, signerCalls, posts, outcome, prev>>

GetTickSizeOk ==
    /\ op = "order"
    /\ \E v \in TickSizeResults : SettleLookup("tickSize", "ok", v, "")

GetTickSizeFail ==
    /\ op = "order"
    /\ SettleLookup("tickSize", "failed", <<>>, "RequestError")

GetFeeRateBpsOk ==
    /\ op = "order"
    /\ \E v \in FeeRateResults : SettleLookup("feeRateBps", "ok", v, "")

GetFeeRateBpsFail ==
    /\ op = "order"
    /\ SettleLookup("feeRateBps", "failed", 0, "RequestError")

\* account.getNonce ? await account.getNonce() : 0n
GetNonceOk ==
    /\ op = "order"
    /\ \E v \in NonceResults :
          /\ wallet.hasGetNonce \/ v = 0
          /\ SettleLookup("nonce", "ok", v, "")

GetNonceFail ==
    /\ op = "order"
    /\ wallet.hasGetNonce
    /\ SettleLookup("nonce", "failed", 0, "AccountError")

\* the caller's promise settles
Settle(o) ==
    /\ pc' = "done"
    /\ outcome' = o

\* await Promise.all(...) throws: createOrder rejects
CreateOrderRejected ==
    /\ op = "order"
    /\ pc = "lookups"
    /\ all.st = "rejected"
    /\ Settle(Rejected(all.error))
    /\ UNCHANGED <<op, calcVars, convVars, authVars, listVars, wallet, entry, params, lookups, all,
                   amounts, order, signature, signerCalls, posts, prev>>

\* await Promise.all(...) returns: the amounts are computed, the order is built
\* and signOrder builds the typed data and calls wallet.signTypedData
CreateOrderProceed ==
    /\ op = "order"
    /\ pc = "lookups"
    /\ all.st = "fulfilled"
    /\ \E salt \in 0..MaxSalt :
          LET o == buildOrder(params, wallet.address, lookups.tickSize.val,
                              lookups.feeRateBps.val, lookups.nonce.val, salt)
          IN  /\ amounts' = [computed |-> TRUE, maker |-> o.makerAmount,
                             taker |-> o.takerAmount]
              /\ order' = o
              /\ IF messageConverts(o)
                 THEN /\ signerCalls' = Append(signerCalls,
                             [primaryType |-> "Order", domain |-> orderDomain(wallet),
                              message |-> orderMessage(o)])
                      /\ signature' = [st |-> "pending", val |-> ""]
                      /\ pc' = "signing"
                      /\ UNCHANGED outcome
                 ELSE /\ Settle(Rejected("SyntaxError"))
                      /\ UNCHANGED <<signerCalls, signature>>
    /\ UNCHANGED <<op, calcVars, convVars, authVars, listVars, wallet, entry, params, lookups, all,
                   posts, prev>>

\* wallet.signTypedData returns a signature: createOrder returns the signed
\* order, which createAndPostOrder hands to postOrder.  A signer that follows
\* the declared types signs no negative uint256.
SignTypedDataOk ==
    /\ op = "order"
    /\ pc = "signing"
    /\ \A f \in UintFields : signerCalls[Len(signerCalls)].message[f] >= 0
    /\ \E sig \in Signatures :
          /\ signature' = [st |-> "ok", val |-> sig]
          /\ IF entry = "createOrder"
             THEN /\ Settle(Resolved(signedOrder(order, sig)))
                  /\ UNCHANGED posts
             ELSE /\ posts' = Append(posts, postRequest(signedOrder(order, sig)))
                  /\ pc' = "posting"
                  /\ UNCHANGED outcome
    /\ UNCHANGED <<op, calcVars, convVars, authVars, listVars, wallet, entry, params, lookups, all,
                   amounts, order, signerCalls, prev>>

\* wallet.signTypedData throws
SignTypedDataFail ==
    /\ op = "order"
    /\ pc = "signing"
    /\ signature' = [st |-> "failed", val |-> ""]
    /\ Settle(Rejected("SignerError"))
    /\ UNCHANGED <<op, calcVars, convVars, authVars, listVars, wallet, entry, params, lookups, all,
                   amounts, order, signerCalls, posts, prev>>

\* client.request of postOrder returns the exchange's response
PostOrderOk ==
    /\ op = "order"
    /\ pc = "posting"
    /\ \E r \in OrderResponses : Settle(Resolved(r))
    /\ UNCHANGED <<op, calcVars, convVars, authVars, listVars, wallet, entry, params, lookups, all,
                   amounts, order, signature, signerCalls, posts, prev>>

\* client.request of postOrder throws
PostOrderFail ==
    /\ op = "order"
    /\ pc = "posting"
    /\ Settle(Rejected("RequestError"))
    /\ UNCHANGED <<op, calcVars, convVars, authVars, listVars, wallet, entry, params, lookups, all,
                   amounts, order, signature, signerCalls, posts, prev>>

\* the caller, whose createAndPostOrder call has failed, keeps what it was
\* told and is free to call again
Retry ==
    /\ op = "order"
    /\ pc = "done"
    /\ entry = "createAndPostOrder"
    /\ outcome.kind = "rejected"
    /\ prev = NoPrev
    /\ prev' = [kind |-> "rejected", error |-> outcome.error,
                signed |-> (signature.st = "ok")]
    /\ op' = "idle"
    /\ entry' = "none"
    /\ params' = None
    /\ pc' = "none"
    /\ lookups' = NoLookups
    /\ all' = NoPromise
    /\ amounts' = NoAmounts
    /\ order' = None
    /\ signature' = NoSignature
    /\ signerCalls' = <<>>
    /\ posts' = <<>>
    /\ outcome' = NoOutcome
    /\ UNCHANGED <<calcVars, convVars, authVars, listVars, wallet>>

\* listAll is called: markets is empty and list is called with no cursor
ListAll ==
    /\ op = "idle"
    /\ op' = "list"
    /\ lpc' = "fetching"
    /\ lMarkets' = <<>>
    /\ lRequests' = <<NoCursor>>
    /\ UNCHANGED <<lResponses, lOutcome, calcVars, convVars, authVars, wallet, orderVars>>

\* the pending list call returns a page: its data is pushed, and either list
\* is called again with its next_cursor or listAll returns markets.  No more
\* than MaxPages pages are asked for.
ListPage ==
    /\ op = "list"
    /\ lpc = "fetching"
    /\ \E response \in ListMarketsResponses :
          /\ truthy(response.next_cursor) => Len(lRequests) < MaxPages
          /\ lResponses' = Append(lResponses, response)
          /\ lMarkets' = lMarkets \o response.data
          /\ IF truthy(response.next_cursor)
             THEN /\ lRequests' = Append(lRequests, response.next_cursor)
                  /\ UNCHANGED <<lpc, lOutcome>>
             ELSE /\ lpc' = "done"
                  /\ lOutcome' = Resolved(lMarkets')
                  /\ UNCHANGED lRequests
    /\ UNCHANGED <<op, calcVars, convVars, authVars, wallet, orderVars>>

\* the pending list call throws: listAll rejects
ListFail ==
    /\ op = "list"
    /\ lpc = "fetching"
    /\ lpc' = "done"
    /\ lOutcome' = Rejected("RequestError")
    /\ UNCHANGED <<op, lRequests, lResponses, lMarkets, calcVars, convVars, authVars,
                   wallet, orderVars>>

Next ==
    \/ ListAll
    \/ ListPage
    \/ ListFail
    \/ CalcCall
    \/ ConvCall
    \/ AuthRequest
    \/ CreateOrder
    \/ CreateAndPostOrder
    \/ GetTickSizeOk
    \/ GetTickSizeFail
    \/ GetFeeRateBpsOk
    \/ GetFeeRateBpsFail
    \/ GetNonceOk
    \/ GetNonceFail
    \/ CreateOrderRejected
    \/ CreateOrderProceed
    \/ SignTypedDataOk
    \/ SignTypedDataFail
    \/ PostOrderOk
    \/ PostOrderFail
    \/ Retry

Spec == Init /\ [][Next]_vars

----------------------------------------------------------------------------
(* Claims about calculateOrderAmounts *)

\* the raw cost and raw share amounts of the call in progress, as integers
CalcCostRaw ==
    BigInt(IF cArgs.side = "BUY" THEN cRet.maker ELSE cRet.taker).value
CalcSharesRaw ==
    BigInt(IF cArgs.side = "BUY" THEN cRet.taker ELSE cRet.maker).value

\* C1 as stated: for a positive price and size, the cost the raw amount represents, costRaw / 10^(tickDecimals + 2),
\* never exceeds price * size of the caller, and sharesRaw / 10^2 never
\* exceeds the caller's size.
C1_NeverExceedsCallerCost ==
    (op = "calc" /\ cArgs.price.n > 0 /\ cArgs.size.n > 0) =>
        LET price == cArgs.price
            size == cArgs.size
            tickDecimals == tickDecimalsOf(cArgs.tickSize)
        IN  /\ CalcCostRaw * Pow10(price.s + size.s)
                  <= price.n * size.n * Pow10(tickDecimals + 2)
            /\ CalcSharesRaw * Pow10(size.s) <= size.n * Pow10(2)

\* the value of x has at most d decimals
OnGrid(x, d) == x.s <= d \/ x.n % Pow10(x.s - d) = 0

\* C1 amended: for a positive price and size, the cost the raw amount represents never exceeds the product of
\* the price rounded to tickDecimals places and the size rounded to 2 places,
\* and sharesRaw / 10^2 never exceeds the size rounded to 2 places; so it never
\* exceeds price * size when the price has at most tickDecimals decimals and
\* the size at most 2.
C1_NeverExceedsRoundedCost ==
    (op = "calc" /\ cArgs.price.n > 0 /\ cArgs.size.n > 0) =>
        LET price == cArgs.price
            size == cArgs.size
            tickDecimals == tickDecimalsOf(cArgs.tickSize)
            roundedPrice == roundTo(price, tickDecimals)
            shares == roundTo(size, 2)
        IN  /\ CalcCostRaw <= shares.n * roundedPrice.n
            /\ CalcSharesRaw <= shares.n
            /\ (OnGrid(price, tickDecimals) /\ OnGrid(size, 2)) =>
                  /\ CalcCostRaw * Pow10(price.s + size.s)
                        <= price.n * size.n * Pow10(tickDecimals + 2)
                  /\ CalcSharesRaw * Pow10(size.s) <= size.n * Pow10(2)

\* a call with positive price and size, one of them rounded, and a positive cost
C1_Witness ==
    /\ op = "calc"
    /\ cArgs.price.n > 0
    /\ cArgs.size.n > 0
    /\ ~(OnGrid(cArgs.price, tickDecimalsOf(cArgs.tickSize)) /\ OnGrid(cArgs.size, 2))
    /\ CalcCostRaw > 0

Str450000 == <<"4", "5", "0", "0", "0", "0">>
Str10000 == <<"1", "0", "0", "0", "0">>

\* C2: for BUY the maker amount is the raw cost and the taker amount the raw
\* shares, for SELL the maker amount is the raw shares and the taker amount the
\* raw cost; price 0.45, size 100, tickSize "0.01" gives BUY maker "450000",
\* taker "10000" and SELL the two exchanged.
C2_AmountsBySide ==
    op = "calc" =>
        LET costRaw == ToString(costRawOf(cArgs.size, cArgs.price, cArgs.tickSize))
            sharesRaw == ToString(sharesRawOf(cArgs.size))
            example == /\ cArgs.price = Dec(45, 2)
                       /\ cArgs.size = Dec(100, 0)
                       /\ cArgs.tickSize = <<"0", ".", "0", "1">>
        IN  /\ cArgs.side = "BUY" => cRet = [maker |-> costRaw, taker |-> sharesRaw]
            /\ cArgs.side = "SELL" => cRet = [maker |-> sharesRaw, taker |-> costRaw]
            /\ (example /\ cArgs.side = "BUY") =>
                  cRet = [maker |-> Str450000, taker |-> Str10000]
            /\ (example /\ cArgs.side = "SELL") =>
                  cRet = [maker |-> Str10000, taker |-> Str450000]

\* the documented example, as a SELL
C2_Witness ==
    /\ op = "calc"
    /\ cArgs = [side |-> "SELL", size |-> Dec(100, 0), price |-> Dec(45, 2),
                tickSize |-> <<"0", ".", "0", "1">>]
    /\ cRet.maker = Str10000

----------------------------------------------------------------------------
(* Claims about the code mappings *)

\* C9: every signature type has one code (eoa 0, poly-proxy 1, poly-gnosis-safe
\* 2) and every side one code (BUY 0, SELL 1), distinct inputs have distinct
\* codes, and calls with the same input return the same code.
C9_MappingsTotalAndStable ==
    /\ \A i \in 1..Len(mArgs) :
          /\ mRet[i].signatureType =
                (CASE mArgs[i].signatureType = "eoa" -> 0
                   [] mArgs[i].signatureType = "poly-proxy" -> 1
                   [] mArgs[i].signatureType = "poly-gnosis-safe" -> 2)
          /\ mRet[i].side = (CASE mArgs[i].side = "BUY" -> 0 [] mArgs[i].side = "SELL" -> 1)
    /\ \A i, j \in 1..Len(mArgs) :
          /\ (mArgs[i].signatureType = mArgs[j].signatureType)
                <=> (mRet[i].signatureType = mRet[j].signatureType)
          /\ (mArgs[i].side = mArgs[j].side) <=> (mRet[i].side = mRet[j].side)

\* two calls: different signature types, the same side
C9_Witness ==
    /\ Len(mArgs) = 2
    /\ mArgs[1].signatureType = "poly-proxy"
    /\ mArgs[2].signatureType = "poly-gnosis-safe"
    /\ mArgs[1].side = mArgs[2].side

----------------------------------------------------------------------------
(* Claims about withAuth *)

\* the header is "Bearer", one space, and a non-empty token without a space
WellFormedBearer ==
    /\ aHeader.present
    /\ Len(aHeader.value) >= 3
    /\ aHeader.value[1] = "Bearer"
    /\ aHeader.value[2] = " "
    /\ \A i \in 3..Len(aHeader.value) : aHeader.value[i] # " "

\* C10: the handler is invoked if and only if the Authorization header is
\* present and is "Bearer", a space and a non-empty second part without a
\* space; it is then invoked once, with the second part as the token; in every
\* other case the response is 401 "unauthorized" and the handler is not invoked.
C10_HandlerIffBearer ==
    op = "auth" =>
        /\ WellFormedBearer =>
              /\ aCalls = <<SubSeq(aHeader.value, 3, Len(aHeader.value))>>
              /\ aResp = signHandler(aCalls[1])
        /\ ~WellFormedBearer =>
              /\ aCalls = <<>>
              /\ aResp = [kind |-> "response", status |-> 401, body |-> "unauthorized"]

\* a request whose header is "Bearer tt"
C10_Witness ==
    /\ op = "auth"
    /\ aHeader = [present |-> TRUE, value |-> <<"Bearer", " ", "t", "t">>]
    /\ aCalls = <<(<<"t", "t">>)>>

----------------------------------------------------------------------------
(* Claims about createOrder and createAndPostOrder *)

\* a decimal string: digits, with at most one "." between digits
ValidDecimalString(s) ==
    LET parts == Split(s, ".") IN
    /\ Len(parts) \in {1, 2}
    /\ \A i \in 1..Len(parts) : parts[i] # <<>> /\ AllDigits(parts[i])

\* the call's price or size is non-positive, or the tick size it was given is
\* no decimal string
BadAmountInput ==
    \/ params.price.n <= 0
    \/ params.size.n <= 0
    \/ lookups.tickSize.st = "ok" /\ ~ValidDecimalString(lookups.tickSize.val)

\* C3: when price is non-positive, size is non-positive or tickSize is not a
\* valid decimal string, the call fails with InvalidAmount: no amounts are
\* produced, the signer is not invoked and no order is returned.
C3_InvalidAmountFails ==
    (op = "order" /\ BadAmountInput) =>
        /\ ~amounts.computed
        /\ signerCalls = <<>>
        /\ outcome.kind # "resolved"
        /\ (pc = "done" /\ all.st = "fulfilled") => outcome = Rejected("InvalidAmount")

AllLookupsOk == \A k \in DOMAIN lookups : lookups[k].st = "ok"
SomeLookupFailed == \E k \in DOMAIN lookups : lookups[k].st = "failed"

\* C4: the amounts are computed and the signer is invoked only after all three
\* lookups have completed successfully; if one of them fails, the call fails:
\* no amounts, no signer call, no post, nothing returned, and once the call has
\* ended it has ended rejected.
C4_LookupBarrier ==
    op = "order" =>
        /\ (amounts.computed \/ order # None \/ signerCalls # <<>> \/ pc \in {"signing", "posting"})
              => AllLookupsOk
        /\ SomeLookupFailed =>
              /\ ~amounts.computed
              /\ order = None
              /\ signerCalls = <<>>
              /\ posts = <<>>
              /\ outcome.kind # "resolved"
              /\ pc \in {"lookups", "done"}
              /\ pc = "done" => outcome.kind = "rejected"
        /\ (pc = "lookups" /\ ~AllLookupsOk /\ ~SomeLookupFailed) => outcome = NoOutcome

\* the call has ended rejected: two lookups succeeded and getNonce failed
C4_Witness ==
    /\ op = "order"
    /\ pc = "done"
    /\ lookups.tickSize.st = "ok"
    /\ lookups.feeRateBps.st = "ok"
    /\ lookups.nonce.st = "failed"
    /\ outcome = Rejected("AccountError")

\* C5: a post is dispatched only by createAndPostOrder and only after the
\* signer has returned a signature; there is at most one, and its order is the
\* signed order of createOrder; when signing fails there is no post.
C5_SignBeforePost ==
    op = "order" =>
        /\ posts # <<>> =>
              /\ entry = "createAndPostOrder"
              /\ signature.st = "ok"
              /\ Len(signerCalls) = 1
              /\ Len(posts) = 1
              /\ posts[1].body = signedOrder(order, signature.val)
              /\ posts[1].auth.headerArgs.order = posts[1].body
              /\ posts[1].body.signature \in Signatures
        /\ signature.st # "ok" => posts = <<>>
        /\ pc = "posting" => Len(posts) = 1

\* createAndPostOrder has posted the order it signed
C5_Witness ==
    /\ op = "order"
    /\ entry = "createAndPostOrder"
    /\ pc = "done"
    /\ outcome.kind = "resolved"
    /\ Len(posts) = 1
    /\ posts[1].body.signature = "0xSIG"

\* C6: when createAndPostOrder fails, what the caller receives tells a failure
\* before or during signing from a failure at posting: two failed calls, one
\* of each kind, are never reported alike.
C6_FailurePointDistinguished ==
    (/\ op = "order"
     /\ entry = "createAndPostOrder"
     /\ pc = "done"
     /\ outcome.kind = "rejected"
     /\ prev.kind = "rejected"
     /\ prev.signed # (signature.st = "ok"))
        => outcome.error # prev.error

C8_ContractByChain ==
    \A i \in 1..Len(signerCalls) :
        LET d == signerCalls[i].domain IN
        /\ d.chainId = wallet.chainId
        /\ (d.verifyingContract = POLYGON_CONTRACTS.negRiskExchange) <=> (wallet.chainId = 137)
        /\ wallet.chainId # 137 =>
              d.verifyingContract = POLYGON_AMOY_CONTRACTS.negRiskExchange

\* an order has been signed on a chain that is neither 137 nor 80002
C8_Witness ==
    /\ signerCalls # <<>>
    /\ wallet.chainId \notin {137, 80002}
    /\ signature.st = "ok"

----------------------------------------------------------------------------
(* Claims about MarketRequests.listAll *)

\* the data of the pages, one after another
RECURSIVE ConcatData(_)
ConcatData(responses) ==
    IF responses = <<>> THEN <<>>
    ELSE Head(responses).data \o ConcatData(Tail(responses))

\* the page's next_cursor is absent or empty
LastPage(response) == ~response.next_cursor.present \/ response.next_cursor.value = ""

\* C11: list is called with no cursor first and then with the next_cursor of
\* the response before, one call at a time and one call for every page; at the
\* first page whose next_cursor is absent or empty listAll has returned, and
\* what it returns is the data of all pages fetched, in the order fetched.
C11_ListAllPagination ==
    op = "list" =>
        /\ lRequests[1] = NoCursor
        /\ \A i \in 2..Len(lRequests) :
              /\ lRequests[i] = lResponses[i - 1].next_cursor
              /\ ~LastPage(lResponses[i - 1])
        /\ Len(lRequests) \in {Len(lResponses), Len(lResponses) + 1}
        /\ lpc = "fetching" =>
              /\ Len(lRequests) = Len(lResponses) + 1
              /\ lOutcome.kind = "pending"
        /\ (\E i \in 1..Len(lResponses) : LastPage(lResponses[i])) =>
              /\ LastPage(lResponses[Len(lResponses)])
              /\ \A i \in 1..(Len(lResponses) - 1) : ~LastPage(lResponses[i])
              /\ Len(lRequests) = Len(lResponses)
              /\ lpc = "done"
              /\ lOutcome.kind = "resolved"
              /\ lOutcome.value = ConcatData(lResponses)
        /\ lOutcome.kind = "resolved" => LastPage(lResponses[Len(lResponses)])

\* listAll has returned three markets after three pages, asked for with no
\* cursor, "a" and "b"; the last page's next_cursor is the empty string
C11_Witness ==
    /\ op = "list"
    /\ lpc = "done"
    /\ lRequests = <<NoCursor, [present |-> TRUE, value |-> "a"],
                     [present |-> TRUE, value |-> "b"]>>
    /\ Len(lResponses) = 3
    /\ lResponses[3].next_cursor = [present |-> TRUE, value |-> ""]
    /\ lOutcome.kind = "resolved"
    /\ lOutcome.value = <<"m1", "m2", "m1">>

====
